---- MODULE Spec2Model ----
(***************************************************************************)
(* LeetCode AI Tutor: the phase timer (timer.js), the background script    *)
(* (background.js), the storage wrapper (storage.js) and the new-tab page  *)
(* (newtab.js), as one state machine.                                      *)
(*                                                                         *)
(* Every async handler is cut at its awaits: one action per synchronous    *)
(* segment.  A chrome.storage read is taken when it is issued and a write  *)
(* takes effect when it is issued; the continuation after the await is a   *)
(* later action, and continuations of different handlers interleave.       *)
(* A request of the page (chrome.runtime.sendMessage) is delivered to the  *)
(* background in the step that sends it; the response travels back as a    *)
(* separate step.  An alarm that has fired is an event in flight until     *)
(* the onAlarm listener runs.                                              *)
(*                                                                         *)
(* The user of the page makes one request at a time: a button is clicked   *)
(* when no request of the page is in flight.                               *)
(*                                                                         *)
(* Time is counted in whole seconds, and the default durations             *)
(* 300/600/900/600 s are scaled down to 1/2/3/2 s.                         *)
(***************************************************************************)
EXTENDS Integers, Sequences, FiniteSets, Bags, TLC

\* ---------------------------------------------------------------- bounds
\* Spec and SpecStorageFails: the clock runs long enough for late alarms
MaxTime == 2          \* the clock stops advancing here
MaxIntervals == 3     \* successful START_PHASE requests in one behaviour
\* SpecSequence: enough START_PHASE requests for a whole pass over the catalog
SeqMaxTime == 1
SeqMaxIntervals == 4
\* SpecMessages and SpecStartFails
MsgMaxTime == 1
MsgMaxIntervals == 1
NumProblems == 2      \* length of the stored problem list
\* SpecSolved: enough START_PHASE requests to go round the problem list
SolvedMaxTime == 1
SolvedMaxIntervals == 3
\* SpecConfig: the options page saves configurations while phases run
CfgMaxTime == 1
CfgMaxIntervals == 2
\* SpecIndex: SKIP_PROBLEM, MARK_SOLVED and CONFIG_UPDATED interleaved
IdxMaxTime == 1
IdxMaxIntervals == 2
\* SpecEditor: the user types notes, reviews phases and goes on
EdMaxTime == 1
EdMaxIntervals == 2
\* SpecTimeUp: the "Time's up" messages of the page are counted, up to MaxShown
\* for an interval
UpMaxTime == 2
UpMaxIntervals == 2
MaxShown == 2
\* SpecTabs: a second new-tab page opens while the first is in its second phase
TabMaxTime == 1
TabMaxIntervals == 3
\* SpecQuiz: hours the wall clock runs, and quizzes taken in that time
QuizMaxHours == 24
QuizMaxLogs == 1
\* SpecGrade: questions of a parsed quiz
GradeMaxQuestions == 2
\* SpecReport: records in storage when the weekly report is generated
ReportMaxLogs == 3

\* ------------------------------------------------------- program constants
phases == <<"understand", "pseudocode", "implement", "optimize">>
PhaseNames == {phases[i] : i \in 1..Len(phases)}

\* a cron expression after split(' '): one field per part, '*' or a list
Star == [any |-> TRUE, vals |-> {}]
Field(S) == [any |-> FALSE, vals |-> S]

\* '0 10 * * 6,0': 10:00 AM on Saturday and Sunday
DefaultCron == <<Field({0}), Field({10}), Star, Star, Field({6, 0})>>

getDefaultConfig ==
  [phaseDurations |->
     [understand |-> 1, pseudocode |-> 2, implement |-> 3, optimize |-> 2],
   problemListUrl |-> "",
   quizCron |-> DefaultCron]

\* problems[i].url, i a 0-based index into the stored list
problems == [i \in 0..(NumProblems - 1) |-> [url |-> i]]

\* ------------------------------------------------------------ null values
NoSlot == [problemUrl |-> -1, phase |-> "", startTime |-> -1, iv |-> 0]
NullRecord ==
  [problemUrl |-> -1, phase |-> "", startTime |-> -1, endTime |-> -1,
   duration |-> -1, iv |-> 0]
NoAlarm == [scheduledTime |-> -1, iv |-> 0]
NoPhase == ""
NoQuizAlarm == -1
NoReport == <<>>
NoResponse == [error |-> "none"]

VARIABLES
  now,              \* Date.now(), in units
  config,           \* chrome.storage.sync 'config'
  logs,             \* chrome.storage.sync 'logs'
  currentIndex,     \* chrome.storage.sync 'currentIndex'
  slot,             \* sessionStorage 'currentPhase' (timer.js)
  alarms,           \* chrome.alarms: pending phase alarms, by name
  fired,            \* onAlarm events dispatched and not yet handled
  ops,              \* handlers suspended at an await, responses in flight
  currentPhase,     \* newtab.js state
  completedPhases,
  timerInterval,
  remainingTime,
  currentProblem,
  editorPhase,      \* the phase whose notes the code editor shows
  listeners,        \* setupEventListeners() has run
  pageIv,           \* history: the interval of the page's last START_PHASE
  nextIv,           \* history: number of the next interval
  limits,           \* the bounds of this behaviour, never changed
  written,          \* history: every entry a logPhase call has stored
  hist,             \* history, per interval
  solutions,        \* chrome.storage.sync 'solutions'
  quizLogs,         \* chrome.storage.sync 'quizLogs'
  quizAlarm,        \* chrome.alarms: the 'quizReminderCheck' alarm
  notifications,    \* chrome.notifications.create calls, by wall-clock hour
  report,           \* what the last generateWeeklyReport() returned
  wallClock,        \* new Date(): hours since Sunday 00:00 local time
  problemsLength,   \* chrome.storage.sync 'problems': its length (problem i has url i)
  codeEditor,       \* newtab.js codeEditor.value
  userSolutions,    \* newtab.js userSolutions, by phase
  gradeResponse     \* what handleGradeQuiz answered last

vars ==
  <<now, config, logs, currentIndex, slot, alarms, fired, ops, currentPhase,
    completedPhases, timerInterval, remainingTime, currentProblem,
    editorPhase, listeners, pageIv, nextIv, limits, written, hist,
    solutions, quizLogs, quizAlarm, notifications, report, wallClock,
    problemsLength, codeEditor, userSolutions, gradeResponse>>

\* what the page and its requests leave alone
auxVars ==
  <<limits, solutions, quizLogs, quizAlarm, notifications, report, wallClock,
    problemsLength, gradeResponse>>

storageVars == <<config, logs, currentIndex, written>>
timerVars == <<slot, alarms, fired>>
pageVars ==
  <<currentPhase, completedPhases, timerInterval, remainingTime,
    currentProblem, editorPhase, listeners, pageIv, codeEditor, userSolutions>>

\* ------------------------------------------------------------- timer.js
\* chrome.alarms.create does not honour a delay below its minimum (it warns
\* and uses the minimum, which is less than one unit of time)
alarmDelay(durationSec) == IF durationSec < 0 THEN 0 ELSE durationSec

\* chrome.alarms.clear(phaseName); chrome.alarms.create(phaseName, delay)
startPhaseTimer(al, phaseName, durationSec, t, iv) ==
  [al EXCEPT ![phaseName] =
     [scheduledTime |-> t + alarmDelay(durationSec), iv |-> iv]]

stopPhaseTimer(al, phaseName) ==
  [al EXCEPT ![phaseName] = NoAlarm]

recordPhaseStart(problemUrl, phase, t, iv) ==
  [problemUrl |-> problemUrl, phase |-> phase, startTime |-> t, iv |-> iv]

\* sessionStorage.getItem('currentPhase'), JSON.parse: the stored record with
\* its url, phase and start time, or null
getCurrentPhase_empty(s) == NoSlot

getCurrentPhase(s) == s

completeCurrentPhase_keepsSlot(s, t) ==
  IF getCurrentPhase(s) = NoSlot
    THEN [record |-> NullRecord, slot |-> s]
    ELSE [record |->
            [problemUrl |-> s.problemUrl, phase |-> s.phase,
             startTime |-> s.startTime, endTime |-> t,
             duration |-> t - s.startTime, iv |-> s.iv],
          slot |-> s]

\* returns the completed record (or null) and the slot it leaves behind
completeCurrentPhase(s, t) ==
  IF getCurrentPhase(s) = NoSlot
    THEN [record |-> NullRecord, slot |-> s]
    ELSE [record |->
            [problemUrl |-> s.problemUrl, phase |-> s.phase,
             startTime |-> s.startTime, endTime |-> t,
             duration |-> t - s.startTime, iv |-> s.iv],
          slot |-> NoSlot]

\* ------------------------------------------------------------ storage.js
\* the entry logPhase pushes; iv and by are history fields
logEntry(problemUrl, phase, start, end, t, iv, by) ==
  [timestamp |-> t, problemUrl |-> problemUrl, phase |-> phase,
   duration |-> end - start, start |-> start, end |-> end,
   iv |-> iv, by |-> by]

\* logs.push(entry); chrome.storage.sync.set({ logs })
logPhase(snapshot, entry) == Append(snapshot, entry)

\* storage.logSolution: solutions.push(entry); chrome.storage.sync.set
logSolution(sols, problemUrl, t) ==
  Append(sols, [timestamp |-> t, problemUrl |-> problemUrl])

\* ------------------------------------------------------------- newtab.js
indexOf(p) ==
  IF p \in PhaseNames
    THEN (CHOOSE i \in 1..Len(phases) : phases[i] = p) - 1
    ELSE -1

getNextPhase_skipsOne(p) ==
  IF indexOf(p) < Len(phases) - 2 THEN phases[indexOf(p) + 3] ELSE NoPhase

getNextPhase(p) ==
  IF indexOf(p) < Len(phases) - 1 THEN phases[indexOf(p) + 2] ELSE NoPhase

\* if (response.error) throw ...: the rest of completePhase runs on success only
completePhaseProceeds_always(resp) == TRUE

completePhaseProceeds(resp) == resp = "ok"

\* if (response.error) throw ...: startTimer runs on success only
startPhaseProceeds_always(resp) == TRUE

startPhaseProceeds(resp) == resp = "ok"

\* a text is known by the phase whose notes the editor showed when the user
\* typed it; NoText is the empty string
NoText == ""
NoSolutions == [p \in PhaseNames |-> NoText]

\* updateCodeEditorForPhase(phase): codeEditor.value = userSolutions.<phase> || ''
updateCodeEditorForPhase(us, phase) == us[phase]

\* saveCurrentSolution(): userSolutions.<currentPhase> = codeEditor.value
saveCurrentSolution(us, cur, solution) ==
  IF cur \in PhaseNames THEN [us EXCEPT ![cur] = solution] ELSE us

\* resetState(): currentPhase = 'understand'; completedPhases = [];
\* userSolutions = all ''
resetState_keepsCompleted(cur, done) ==
  [currentPhase |-> phases[1], completedPhases |-> done,
   userSolutions |-> NoSolutions]

resetState(cur, done) ==
  [currentPhase |-> phases[1], completedPhases |-> <<>>,
   userSolutions |-> NoSolutions]

\* page handlePhaseTimeout: showMessage only
pageTimeoutPhase_advances(cur) == IF getNextPhase(cur) = NoPhase THEN cur ELSE getNextPhase(cur)

pageTimeoutPhase(cur) == cur

\* ------------------------------------------------------------ operations
NewOp(kind, pc, phase, url) ==
  [kind |-> kind, pc |-> pc, phase |-> phase, url |-> url,
   rec |-> NullRecord, snap |-> <<>>, resp |-> "none", dur |-> 0,
   idx |-> 0, len |-> 0, iv |-> 0, late |-> FALSE, committed |-> FALSE]

InFlight == BagToSet(ops)
AddOp(o) == ops (+) SetToBag({o})
RemoveOp(o) == ops (-) SetToBag({o})
ReplaceOp(o, n) == (ops (-) SetToBag({o})) (+) SetToBag({n})
PageOps == {o \in InFlight : o.kind \notin {"timeout", "config"}}

\* the buttons work once setupEventListeners() has run
Click == listeners /\ PageOps = {}

NoHist == [by |-> "none", abandoned |-> FALSE, notified |-> FALSE, shown |-> 0]

Intervals == DOMAIN hist

Mark(h, iv, field, value) ==
  IF iv \in Intervals THEN [h EXCEPT ![iv][field] = value] ELSE h

InitAt(l, cfg, clock) ==
  /\ limits = l
  /\ now = 0
  /\ config = cfg
  /\ logs = <<>>
  /\ currentIndex = 0
  /\ slot = NoSlot
  /\ alarms = [p \in PhaseNames |-> NoAlarm]
  /\ fired = {}
  /\ ops = EmptyBag
  /\ currentPhase = "understand"
  /\ completedPhases = <<>>
  /\ timerInterval = FALSE
  /\ remainingTime = 0
  /\ currentProblem = -1
  /\ editorPhase = "understand"
  /\ listeners = FALSE
  /\ pageIv = 0
  /\ nextIv = 1
  /\ written = <<>>
  /\ hist = [i \in 1..l.ivs |-> NoHist]
  /\ solutions = <<>>
  /\ quizLogs = <<>>
  /\ quizAlarm = NoQuizAlarm
  /\ notifications = <<>>
  /\ report = NoReport
  /\ wallClock = clock
  /\ problemsLength = NumProblems
  /\ codeEditor = NoText
  /\ userSolutions = NoSolutions
  /\ gradeResponse = NoResponse

InitFrom(l, cfg) == InitAt(l, cfg, 0)

\* storage holds no 'config': getConfig() gives getDefaultConfig()
InitWith(l) == InitFrom(l, getDefaultConfig)

Init == InitWith([time |-> MaxTime, ivs |-> MaxIntervals])

InitSequence == InitWith([time |-> SeqMaxTime, ivs |-> SeqMaxIntervals])

\* ------------------------------------------------- background: START_PHASE
\* config.phaseDurations[phase]; a missing entry is undefined, which is falsy
durationOf(cfg, phase) ==
  IF phase \in DOMAIN cfg.phaseDurations THEN cfg.phaseDurations[phase] ELSE 0

\* if (!durationSec) throw
validDuration_always(d) == TRUE

validDuration(d) == d # 0

\* newtab.js startPhase up to the await of sendMessage, and the background's
\* handleStartPhase up to its await of storage.getConfig()
startPhase(o, phase, url, us) ==
  /\ currentPhase' = phase
  /\ editorPhase' = phase
  /\ codeEditor' = updateCodeEditorForPhase(us, phase)
  /\ ops' = IF o = NullRecord
              THEN AddOp(NewOp("start", "cfg", phase, url))
              ELSE ReplaceOp(o, NewOp("start", "cfg", phase, url))

\* DOMContentLoaded: initialize() -> loadCurrentProblem(); startPhase('understand')
Initialize ==
  /\ currentProblem = -1
  /\ ~listeners
  /\ ops = EmptyBag
  /\ currentProblem' = problems[currentIndex].url
  /\ startPhase(NullRecord, "understand", problems[currentIndex].url,
                userSolutions)
  /\ UNCHANGED <<now, storageVars, timerVars, completedPhases, timerInterval,
                 remainingTime, listeners, pageIv, userSolutions, auxVars,
                 nextIv, hist>>

\* handleStartPhase after getConfig(): startPhaseTimer, recordPhaseStart, respond
StartPhaseResume(o) ==
  /\ o.kind \in {"start", "request"} /\ o.pc = "cfg"
  /\ LET durationSec == durationOf(config, o.phase) IN
     IF ~validDuration(durationSec)
       THEN /\ ops' = ReplaceOp(o, [o EXCEPT !.pc = "resp", !.resp = "Invalid"])
            /\ UNCHANGED <<timerVars, nextIv, hist>>
       ELSE /\ nextIv <= limits.ivs
            /\ UNCHANGED hist
            /\ alarms' = startPhaseTimer(alarms, o.phase, durationSec, now, nextIv)
            /\ slot' = recordPhaseStart(o.url, o.phase, now, nextIv)
            /\ nextIv' = nextIv + 1
            /\ ops' = ReplaceOp(o, [o EXCEPT !.pc = "resp", !.resp = "ok",
                                             !.dur = durationSec, !.iv = nextIv])
            /\ UNCHANGED fired
  /\ UNCHANGED <<now, storageVars, pageVars, auxVars>>

\* newtab.js startPhase after the response: startTimer(durationSec) or showError;
\* initialize() then goes on to setupEventListeners()
StartPhaseDone(o) ==
  /\ o.kind = "start" /\ o.pc = "resp"
  /\ IF startPhaseProceeds(o.resp)
       THEN /\ remainingTime' = o.dur
            /\ timerInterval' = TRUE
            /\ pageIv' = o.iv
       ELSE UNCHANGED <<remainingTime, timerInterval, pageIv>>
  /\ listeners' = TRUE
  /\ ops' = RemoveOp(o)
  /\ UNCHANGED <<now, storageVars, timerVars, currentPhase, completedPhases,
                 currentProblem, editorPhase, codeEditor, userSolutions,
                 auxVars, nextIv, hist>>

\* ---------------------------------------------- background: COMPLETE_PHASE
\* nextPhaseBtn click: completePhase() up to the await of sendMessage, and
\* handleCompletePhase up to its await of timer.stopPhaseTimer(phase)
CompletePhase ==
  /\ Click
  /\ timerInterval' = FALSE
  /\ alarms' = stopPhaseTimer(alarms, currentPhase)
  /\ ops' = AddOp([NewOp("complete", "stop", currentPhase, currentProblem)
                     EXCEPT !.iv = pageIv,
                            !.late = pageIv \in Intervals
                                       /\ hist[pageIv].by = "timeout"])
  /\ userSolutions' = saveCurrentSolution(userSolutions, currentPhase, codeEditor)
  /\ UNCHANGED <<now, storageVars, slot, fired, currentPhase, completedPhases,
                 remainingTime, currentProblem, editorPhase, listeners, pageIv,
                 codeEditor, auxVars, nextIv, hist>>

\* handleCompletePhase after stopPhaseTimer: completeCurrentPhase(); throw on
\* null, else storage.logPhase(...) up to its await of getLogs()
CompletePhaseResume(o) ==
  /\ o.kind = "complete" /\ o.pc = "stop"
  /\ LET r == completeCurrentPhase(slot, now) IN
     IF r.record = NullRecord
       THEN /\ ops' = ReplaceOp(o, [o EXCEPT !.pc = "resp", !.resp = "NoActive"])
            /\ UNCHANGED <<slot, hist>>
       ELSE /\ slot' = r.slot
            /\ ops' = ReplaceOp(o, [o EXCEPT !.pc = "log", !.rec = r.record,
                                             !.snap = logs])
            /\ hist' = Mark(hist, r.record.iv, "by", "complete")
  /\ UNCHANGED <<now, storageVars, alarms, fired, pageVars, auxVars, nextIv>>

\* logPhase after getLogs(): push, chrome.storage.sync.set; the handler returns
\* { success: true, ... }
CompletePhaseLog(o) ==
  /\ o.kind = "complete" /\ o.pc = "log"
  /\ LET e == logEntry(o.url, o.phase, o.rec.startTime, o.rec.endTime, now,
                       o.rec.iv, "complete") IN
       /\ logs' = logPhase(o.snap, e)
       /\ written' = Append(written, e)
  /\ ops' = ReplaceOp(o, [o EXCEPT !.pc = "resp", !.resp = "ok", !.snap = <<>>])
  /\ UNCHANGED <<now, config, currentIndex, timerVars, pageVars, auxVars, nextIv, hist>>

\* chrome.storage.sync.set rejects: the catch returns { error }
CompletePhaseLogFails(o) ==
  /\ o.kind = "complete" /\ o.pc = "log"
  /\ ops' = ReplaceOp(o, [o EXCEPT !.pc = "resp", !.resp = "Storage", !.snap = <<>>])
  /\ UNCHANGED <<now, storageVars, timerVars, pageVars, auxVars, nextIv, hist>>

\* completePhase() after the response
CompletePhaseDone(o) ==
  /\ o.kind = "complete" /\ o.pc = "resp"
  /\ IF completePhaseProceeds(o.resp)
       THEN /\ completedPhases' = Append(completedPhases, currentPhase)
            /\ IF getNextPhase(currentPhase) # NoPhase
                 THEN startPhase(o, getNextPhase(currentPhase), currentProblem,
                                 userSolutions)
                 ELSE /\ ops' = RemoveOp(o)
                      /\ UNCHANGED <<currentPhase, editorPhase, codeEditor>>
       ELSE /\ ops' = RemoveOp(o)
            /\ UNCHANGED <<currentPhase, completedPhases, editorPhase, codeEditor>>
  /\ UNCHANGED <<now, storageVars, timerVars, timerInterval, remainingTime,
                 currentProblem, listeners, pageIv, userSolutions, auxVars,
                 nextIv, hist>>

\* ------------------------------------------------ background: SKIP_PROBLEM
\* skipBtn click (confirmed): skipProblem() up to the await of sendMessage, and
\* handleSkipProblem up to its await of storage.getState()
SkipProblem ==
  /\ Click
  /\ ops' = AddOp([NewOp("skip", "state", NoPhase, currentProblem)
                     EXCEPT !.idx = currentIndex, !.len = problemsLength])
  /\ UNCHANGED <<now, storageVars, timerVars, pageVars, auxVars, nextIv, hist>>

\* const nextIndex = (currentIndex + 1) % problems.length
nextIndex_stays(index, length) == index % length

nextIndex(index, length) == (index + 1) % length

\* handleSkipProblem after getState(): setCurrentIndex(nextIndex), respond
SkipProblemResume(o) ==
  /\ o.kind = "skip" /\ o.pc = "state"
  /\ currentIndex' = nextIndex(o.idx, o.len)
  /\ ops' = ReplaceOp(o, [o EXCEPT !.pc = "resp", !.resp = "ok",
                                   !.idx = nextIndex(o.idx, o.len)])
  /\ UNCHANGED <<now, config, logs, written, timerVars, pageVars, auxVars, nextIv, hist>>

\* skipProblem() after the response: resetState(); currentProblem =
\* response.nextProblem; startPhase('understand')
SkipProblemDone(o) ==
  /\ o.kind = "skip" /\ o.pc = "resp"
  /\ timerInterval' = FALSE
  /\ completedPhases' = resetState(currentPhase, completedPhases).completedPhases
  /\ currentProblem' = problems[o.idx].url
  /\ userSolutions' = resetState(currentPhase, completedPhases).userSolutions
  /\ startPhase(o, resetState(currentPhase, completedPhases).currentPhase,
                problems[o.idx].url,
                resetState(currentPhase, completedPhases).userSolutions)
  /\ hist' = Mark(hist, slot.iv, "abandoned", TRUE)
  /\ UNCHANGED <<now, storageVars, timerVars, remainingTime, listeners, pageIv,
                 auxVars, nextIv>>

\* getRemainingTime without Math.max(0, ...)
getRemainingTime_noClamp(al, phaseName, nowMs) ==
  IF al[phaseName] = NoAlarm
    THEN 0
    ELSE (al[phaseName].scheduledTime * 1000 - nowMs) \div 1000

\* alarms.find(a => a.name === phaseName); no alarm: 0; otherwise
\* Math.max(0, Math.floor((alarm.scheduledTime - Date.now()) / 1000)).
\* The clock of the model counts seconds; Date.now() is in milliseconds.
getRemainingTime(al, phaseName, nowMs) ==
  IF al[phaseName] = NoAlarm
    THEN 0
    ELSE LET remainingMs == al[phaseName].scheduledTime * 1000 - nowMs
             floor == remainingMs \div 1000
         IN  IF floor > 0 THEN floor ELSE 0

\* the instants within one second at which getRemainingTime is called
SubSecond == {0, 1, 999}

\* ----------------------------------------------------- alarms and the clock
\* setInterval callback of startTimer: remainingTime--; at 0 stopTimer()
timerTick(running, remaining) ==
  IF ~running
    THEN [running |-> FALSE, remaining |-> remaining, timeout |-> FALSE]
    ELSE [running |-> remaining - 1 > 0, remaining |-> remaining - 1,
          timeout |-> remaining - 1 <= 0]

\* page handlePhaseTimeout(): showMessage("Time's up for the ... phase! ..."),
\* counted for the interval it is about in the behaviours that keep the count
showTimeUp(h, iv) ==
  IF iv \in DOMAIN h /\ "shown" \in DOMAIN limits /\ h[iv].shown < limits.shown
    THEN [h EXCEPT ![iv].shown = @ + 1]
    ELSE h

\* one unit of time passes
Tick ==
  /\ now < limits.time
  /\ now' = now + 1
  /\ timerInterval' = timerTick(timerInterval, remainingTime).running
  /\ remainingTime' = timerTick(timerInterval, remainingTime).remaining
  /\ hist' = IF timerTick(timerInterval, remainingTime).timeout
               THEN showTimeUp(hist, pageIv)
               ELSE hist
  /\ UNCHANGED <<storageVars, timerVars, ops, currentPhase, completedPhases,
                 currentProblem, editorPhase, listeners, pageIv, codeEditor,
                 userSolutions, auxVars, nextIv>>

\* chrome.alarms dispatches onAlarm no earlier than the scheduled time
AlarmFires(name) ==
  /\ alarms[name] # NoAlarm
  /\ now >= alarms[name].scheduledTime
  /\ alarms' = [alarms EXCEPT ![name] = NoAlarm]
  /\ fired' = fired \cup {[name |-> name, iv |-> alarms[name].iv]}
  /\ UNCHANGED <<now, storageVars, slot, ops, pageVars, auxVars, nextIv, hist>>

isCurrentPhase_anyPhase(currentPhaseRec, phase) == currentPhaseRec # NoSlot

\* the guard of handlePhaseTimeout:
\* !(!currentPhase || currentPhase.phase !== phase)
isCurrentPhase(currentPhaseRec, phase) ==
  currentPhaseRec # NoSlot /\ currentPhaseRec.phase = phase


\* onAlarm listener -> handlePhaseTimeout(alarm.name), up to the await of
\* getLogs() inside storage.logPhase
handlePhaseTimeout(e) ==
  /\ e \in fired
  /\ fired' = fired \ {e}
  /\ LET currentPhaseRec == getCurrentPhase(slot) IN
     IF ~isCurrentPhase(currentPhaseRec, e.name)
       THEN UNCHANGED <<slot, ops, hist>>
       ELSE LET r == completeCurrentPhase(slot, now) IN
            /\ slot' = r.slot
            /\ ops' = AddOp([NewOp("timeout", "log", e.name, r.record.problemUrl)
                               EXCEPT !.rec = r.record, !.snap = logs])
            /\ hist' = Mark(hist, r.record.iv, "by", "timeout")
  /\ UNCHANGED <<now, storageVars, alarms, pageVars, auxVars, nextIv>>

\* logPhase after getLogs(): push, set; then chrome.runtime.sendMessage
handlePhaseTimeoutLog(o) ==
  /\ o.kind = "timeout" /\ o.pc = "log"
  /\ LET e == logEntry(o.rec.problemUrl, o.phase, o.rec.startTime,
                       o.rec.endTime, now, o.rec.iv, "timeout") IN
       /\ logs' = logPhase(o.snap, e)
       /\ written' = Append(written, e)
  /\ ops' = ReplaceOp(o, [o EXCEPT !.pc = "msg", !.snap = <<>>])
  /\ hist' = Mark(hist, o.rec.iv, "notified", TRUE)
  /\ UNCHANGED <<now, config, currentIndex, timerVars, pageVars, auxVars, nextIv>>

\* chrome.storage.sync.set rejects: handlePhaseTimeout has no catch, the
\* promise it returned is rejected and nothing after the await runs
handlePhaseTimeoutLogFails(o) ==
  /\ o.kind = "timeout" /\ o.pc = "log"
  /\ ops' = RemoveOp(o)
  /\ UNCHANGED <<now, storageVars, timerVars, pageVars, auxVars, nextIv, hist>>

\* the page's onMessage listener: PHASE_TIMEOUT -> handlePhaseTimeout()
\* (a message sent before setupEventListeners() has no receiver)
PhaseTimeoutMessage(o) ==
  /\ o.kind = "timeout" /\ o.pc = "msg"
  /\ ops' = RemoveOp(o)
  /\ currentPhase' = IF listeners THEN pageTimeoutPhase(currentPhase) ELSE currentPhase
  /\ hist' = IF listeners THEN showTimeUp(hist, o.rec.iv) ELSE hist
  /\ UNCHANGED <<now, storageVars, timerVars, completedPhases, timerInterval,
                 remainingTime, currentProblem, editorPhase, listeners, pageIv,
                 codeEditor, userSolutions, auxVars, nextIv>>

\* ------------------------------------------------- background: MARK_SOLVED
\* solvedBtn click: markSolved() up to the await of sendMessage, and
\* handleMarkSolved up to its await of logger.logSolution(...)
MarkSolved ==
  /\ Click
  /\ userSolutions' = saveCurrentSolution(userSolutions, currentPhase, codeEditor)
  /\ ops' = AddOp(NewOp("solved", "solution", NoPhase, currentProblem))
  /\ UNCHANGED <<now, storageVars, timerVars, currentPhase, completedPhases,
                 timerInterval, remainingTime, currentProblem, editorPhase,
                 listeners, pageIv, codeEditor, auxVars, nextIv, hist>>

\* logger.logSolution: storage.logSolution(...), then commitToGitHub inside
\* try/catch (it throws when no repository or token is configured and when
\* the GitHub API refuses); handleMarkSolved goes on to its await of
\* storage.getState()
MarkSolvedLogged(o) ==
  /\ o.kind = "solved" /\ o.pc = "solution"
  /\ solutions' = logSolution(solutions, o.url, now)
  /\ \E committed \in BOOLEAN :
       ops' = ReplaceOp(o, [o EXCEPT !.pc = "state", !.idx = currentIndex,
                                     !.len = problemsLength,
                                     !.committed = committed])
  /\ UNCHANGED <<now, storageVars, timerVars, pageVars, limits, problemsLength, gradeResponse, quizLogs,
                 quizAlarm, notifications, report, wallClock, nextIv, hist>>

\* return { success: true, nextProblem, githubCommitted: result.committed }
markSolvedResponse_failsWithoutCommit(committed) ==
  IF committed THEN "ok" ELSE "GitHub"

markSolvedResponse(committed) == "ok"

\* handleMarkSolved after getState(): setCurrentIndex(nextIndex), respond
MarkSolvedResume(o) ==
  /\ o.kind = "solved" /\ o.pc = "state"
  /\ currentIndex' = nextIndex(o.idx, o.len)
  /\ ops' = ReplaceOp(o, [o EXCEPT !.pc = "resp",
                                   !.resp = markSolvedResponse(o.committed),
                                   !.idx = nextIndex(o.idx, o.len)])
  /\ UNCHANGED <<now, config, logs, written, timerVars, pageVars, auxVars,
                 nextIv, hist>>

\* markSolved() after the response: resetState(); currentProblem =
\* response.nextProblem; startPhase('understand')
MarkSolvedDone(o) ==
  /\ o.kind = "solved" /\ o.pc = "resp"
  /\ timerInterval' = FALSE
  /\ completedPhases' = resetState(currentPhase, completedPhases).completedPhases
  /\ currentProblem' = problems[o.idx].url
  /\ userSolutions' = resetState(currentPhase, completedPhases).userSolutions
  /\ startPhase(o, resetState(currentPhase, completedPhases).currentPhase,
                problems[o.idx].url,
                resetState(currentPhase, completedPhases).userSolutions)
  /\ hist' = Mark(hist, slot.iv, "abandoned", TRUE)
  /\ UNCHANGED <<now, storageVars, timerVars, remainingTime, listeners, pageIv,
                 auxVars, nextIv>>

\* ------------------------------------------------- page: phase indicators
\* the click handler assigns nothing to currentPhase
phaseClickPhase_enters(phase, cur) == phase

phaseClickPhase(phase, cur) == cur

\* click on a phase indicator: for the current or a completed phase
\* saveCurrentSolution(); updateCodeEditorForPhase(phase); else nothing
PhaseClick(phase) ==
  /\ listeners
  /\ IF phase = currentPhase
          \/ \E i \in 1..Len(completedPhases) : completedPhases[i] = phase
       THEN /\ userSolutions' =
                 saveCurrentSolution(userSolutions, currentPhase, codeEditor)
            /\ codeEditor' = updateCodeEditorForPhase(userSolutions', phase)
            /\ editorPhase' = phase
            /\ currentPhase' = phaseClickPhase(phase, currentPhase)
       ELSE UNCHANGED <<editorPhase, currentPhase, codeEditor, userSolutions>>
  /\ UNCHANGED <<now, storageVars, timerVars, ops, completedPhases,
                 timerInterval, remainingTime, currentProblem, listeners,
                 pageIv, auxVars, nextIv, hist>>

\* the user types into the code editor: the text is known by the phase whose
\* notes the editor shows
TypeText ==
  /\ codeEditor' = editorPhase
  /\ UNCHANGED <<now, storageVars, timerVars, ops, currentPhase, completedPhases,
                 timerInterval, remainingTime, currentProblem, editorPhase,
                 listeners, pageIv, userSolutions, auxVars, nextIv, hist>>

\* ------------------------------------- START_PHASE from any extension page
\* 'review' is a name with no entry in phaseDurations
RequestPhases == PhaseNames \cup {"review"}

\* chrome.runtime.sendMessage({ type: 'START_PHASE', phase, problemUrl }) from
\* an extension context other than the page's sequence, one at a time; the
\* background runs handleStartPhase up to its await of storage.getConfig()
StartPhaseRequest(phase) ==
  /\ \A o \in InFlight : o.kind # "request"
  /\ ops' = AddOp(NewOp("request", "cfg", phase, problems[currentIndex].url))
  /\ UNCHANGED <<now, storageVars, timerVars, pageVars, auxVars, nextIv, hist>>

\* the sender gets the response
RequestDone(o) ==
  /\ o.kind = "request" /\ o.pc = "resp"
  /\ ops' = RemoveOp(o)
  /\ UNCHANGED <<now, storageVars, timerVars, pageVars, auxVars, nextIv, hist>>

\* chrome.storage.sync.get rejects inside getConfig(): the catch of
\* handleStartPhase returns { error }
StartPhaseConfigFails(o) ==
  /\ o.kind \in {"start", "request"} /\ o.pc = "cfg"
  /\ ops' = ReplaceOp(o, [o EXCEPT !.pc = "resp", !.resp = "Storage"])
  /\ UNCHANGED <<now, storageVars, timerVars, pageVars, auxVars, nextIv, hist>>

\* ------------------------------------------------------------ options.js
\* parseInt(input.value) || 300: an empty field and 0 give the default
parseDuration(input, default) == IF input = 0 THEN default ELSE input

\* quizCronInput.value.trim() || '0 10 * * 6,0': an empty field gives the default
parseCron(input) == IF input = <<>> THEN DefaultCron ELSE input

\* saveConfig(): chrome.storage.sync.set({ config })
saveConfig(inputs, urlInput, cronInput) ==
  [phaseDurations |->
     [p \in PhaseNames |->
        parseDuration(inputs[p], getDefaultConfig.phaseDurations[p])],
   problemListUrl |-> urlInput,
   quizCron |-> parseCron(cronInput)]

\* what the user types into the 'understand' duration field
DurationInputs == {-1, 0, 2}

\* what the user types into the problem list URL field (a valid URL or nothing)
UrlInputs == {"", "problems.json"}

\* fetchProblemList(url): the length of data.problems; "short.json" serves a
\* list of ShortLength problems, any other URL the list the extension
\* started with
ShortLength == 1

fetchProblemList(url) == IF url = "short.json" THEN ShortLength ELSE NumProblems

\* what the user types into the 'understand' duration field while phases run
NewDurationInputs == {0, 2}

\* periodInMinutes: 60 * 24, in hours
PeriodHours == 24

\* timer.scheduleAlarms(phaseDurations, quizCron): chrome.alarms.clearAll();
\* chrome.alarms.create('quizReminderCheck', { periodInMinutes: 60 * 24 })
scheduleAlarms(phaseDurations, quizCron, clock) ==
  [alarms |-> [p \in PhaseNames |-> NoAlarm],
   quizAlarm |-> clock + PeriodHours]

\* chrome.storage.sync.set(items): a key that items does not name keeps its value
storageSet_clearsLogs(key, old, items) ==
  IF key \in DOMAIN items THEN items[key]
  ELSE IF key = "logs" THEN <<>> ELSE old

storageSet(key, old, items) ==
  IF key \in DOMAIN items THEN items[key] ELSE old

\* ---------------------------------------------- background: CONFIG_UPDATED
\* saveButton click: saveConfig() of the options page stores the configuration
\* and sends CONFIG_UPDATED; handleConfigUpdate runs up to its await of
\* storage.saveConfig(config)
ConfigUpdated(d, urlInput, cronInput) ==
  /\ \A o \in InFlight : o.kind # "config"
  /\ LET items ==
           [config |-> saveConfig([config.phaseDurations EXCEPT !.understand = d],
                                  urlInput, cronInput)]
     IN  /\ config' = storageSet("config", config, items)
         /\ logs' = storageSet("logs", logs, items)
         /\ currentIndex' = storageSet("currentIndex", currentIndex, items)
  /\ ops' = AddOp(NewOp("config", "saved", NoPhase, -1))
  /\ UNCHANGED <<now, written, timerVars, pageVars, auxVars, nextIv, hist>>

\* handleConfigUpdate after saveConfig: with a problem list URL the await of
\* fetchProblemList, without one scheduleAlarms and the response
ConfigUpdateResume(o) ==
  /\ o.kind = "config" /\ o.pc = "saved"
  /\ IF config.problemListUrl # ""
       THEN /\ ops' = ReplaceOp(o, [o EXCEPT !.pc = "fetch"])
            /\ UNCHANGED <<alarms, quizAlarm>>
       ELSE /\ ops' = RemoveOp(o)
            /\ alarms' = scheduleAlarms(config.phaseDurations, config.quizCron,
                                        wallClock).alarms
            /\ quizAlarm' = scheduleAlarms(config.phaseDurations, config.quizCron,
                                           wallClock).quizAlarm
  /\ UNCHANGED <<now, storageVars, slot, fired, pageVars, limits, problemsLength, gradeResponse, solutions,
                 quizLogs, notifications, report, wallClock, nextIv, hist>>

\* after fetchProblemList: chrome.storage.sync.set({ problems, currentIndex: 0 })
ConfigUpdateFetched(o) ==
  /\ o.kind = "config" /\ o.pc = "fetch"
  /\ LET items == [problems |-> fetchProblemList(config.problemListUrl),
                   currentIndex |-> 0] IN
       /\ config' = storageSet("config", config, items)
       /\ logs' = storageSet("logs", logs, items)
       /\ currentIndex' = storageSet("currentIndex", currentIndex, items)
       /\ problemsLength' = storageSet("problems", problemsLength, items)
  /\ ops' = ReplaceOp(o, [o EXCEPT !.pc = "set"])
  /\ UNCHANGED <<now, written, timerVars, pageVars, limits, solutions, quizLogs,
                 quizAlarm, notifications, report, wallClock, gradeResponse,
                 nextIv, hist>>

\* after the set: scheduleAlarms and the response, which the options page
\* does not wait for
ConfigUpdateSchedule(o) ==
  /\ o.kind = "config" /\ o.pc = "set"
  /\ ops' = RemoveOp(o)
  /\ alarms' = scheduleAlarms(config.phaseDurations, config.quizCron,
                              wallClock).alarms
  /\ quizAlarm' = scheduleAlarms(config.phaseDurations, config.quizCron,
                                 wallClock).quizAlarm
  /\ UNCHANGED <<now, storageVars, slot, fired, pageVars, limits, problemsLength, gradeResponse, solutions,
                 quizLogs, notifications, report, wallClock, nextIv, hist>>

\* ---------------------------------------------------------------- quiz.js
\* Date getters on the wall clock, which counts hours from Sunday 00:00
getDay(clock) == (clock \div 24) % 7
getHours(clock) == clock % 24
getMinutes(clock) == 0
toDateString(clock) == clock \div 24

\* now.getDay() === 0 || now.getDay() === 6
isWeekend_anyDay(clock) == TRUE

isWeekend(clock) == getDay(clock) = 0 \/ getDay(clock) = 6

\* shouldConductQuiz(): false off the weekend; else true iff no quiz log has
\* the date of today
shouldConductQuiz(clock, qlogs) ==
  IF ~isWeekend(clock)
    THEN FALSE
    ELSE LET todayQuizzes ==
               {k \in 1..Len(qlogs) :
                  toDateString(qlogs[k].timestamp) = toDateString(clock)}
         IN  todayQuizzes = {}

\* parseInt of a field that holds one number
parseInt(field) == CHOOSE v \in field.vals : TRUE

\* timer.matchesCron(date, cronExpression): five parts; day of week, hour and
\* minute are compared, day of month and month are not
matchesCron(clock, cronExpression) ==
  IF Len(cronExpression) # 5
    THEN FALSE
    ELSE LET minute == cronExpression[1]
             hour == cronExpression[2]
             dayOfWeek == cronExpression[5]
         IN  IF ~dayOfWeek.any /\ getDay(clock) \notin dayOfWeek.vals
               THEN FALSE
               ELSE IF ~hour.any /\ parseInt(hour) # getHours(clock)
                 THEN FALSE
                 ELSE IF ~minute.any /\ parseInt(minute) # getMinutes(clock)
                   THEN FALSE
                   ELSE TRUE

\* '* * * * *'
EveryMinuteCron == <<Star, Star, Star, Star, Star>>

\* what the user types into the quiz schedule field
CronInputs == {<<>>, EveryMinuteCron}

\* the hour at which the extension is installed: Thursday 15:00, Friday 15:00
QuizStartHours == {4 * 24 + 15, 5 * 24 + 15}

\* one hour passes
HourPasses ==
  /\ wallClock < limits.hours
  /\ wallClock' = wallClock + 1
  /\ UNCHANGED <<now, storageVars, timerVars, ops, pageVars, nextIv, hist,
                 limits, problemsLength, gradeResponse, solutions, quizLogs, quizAlarm, notifications, report>>

\* onInstalled: initialize() up to its await of storage.getConfig()
BackgroundInitialize ==
  /\ quizAlarm = NoQuizAlarm
  /\ \A o \in InFlight : o.kind \notin {"init", "config"}
  /\ ops' = AddOp(NewOp("init", "cfg", NoPhase, -1))
  /\ UNCHANGED <<now, storageVars, timerVars, pageVars, auxVars, nextIv, hist>>

\* initialize() after getConfig(): without a problem list URL scheduleAlarms;
\* with one the fetch, after which it goes on as handleConfigUpdate does
InitializeResume(o) ==
  /\ o.kind = "init" /\ o.pc = "cfg"
  /\ IF config.problemListUrl # ""
       THEN /\ ops' = ReplaceOp(o, [o EXCEPT !.kind = "config", !.pc = "fetch"])
            /\ UNCHANGED <<alarms, quizAlarm>>
       ELSE /\ ops' = RemoveOp(o)
            /\ alarms' = scheduleAlarms(config.phaseDurations, config.quizCron,
                                        wallClock).alarms
            /\ quizAlarm' = scheduleAlarms(config.phaseDurations, config.quizCron,
                                           wallClock).quizAlarm
  /\ UNCHANGED <<now, storageVars, slot, fired, pageVars, limits, problemsLength, gradeResponse, solutions,
                 quizLogs, notifications, report, wallClock, nextIv, hist>>

\* the periodic 'quizReminderCheck' alarm: onAlarm -> handleQuizReminderCheck()
\* -> quiz.shouldConductQuiz() up to its await of storage.getConfig()
QuizAlarmFires ==
  /\ quizAlarm # NoQuizAlarm
  /\ wallClock >= quizAlarm
  /\ quizAlarm' = quizAlarm + PeriodHours
  /\ ops' = AddOp(NewOp("quiz", "cfg", NoPhase, -1))
  /\ UNCHANGED <<now, storageVars, timerVars, pageVars, limits, problemsLength, gradeResponse, solutions,
                 quizLogs, notifications, report, wallClock, nextIv, hist>>

\* shouldConductQuiz after getConfig(): now = new Date(), the weekend test, the
\* quiz logs; then chrome.notifications.create if it returned true
QuizReminderCheck(o) ==
  /\ o.kind = "quiz" /\ o.pc = "cfg"
  /\ IF shouldConductQuiz(wallClock, quizLogs)
       THEN /\ notifications' = Append(notifications, wallClock)
            /\ ops' = ReplaceOp(o, [o EXCEPT !.pc = "done", !.resp = "notified"])
       ELSE /\ UNCHANGED notifications
            /\ ops' = ReplaceOp(o, [o EXCEPT !.pc = "done", !.resp = "quiet"])
  /\ UNCHANGED <<now, storageVars, timerVars, pageVars, limits, problemsLength, gradeResponse, solutions,
                 quizLogs, quizAlarm, report, wallClock, nextIv, hist>>

\* handleQuizReminderCheck returns
QuizReminderDone(o) ==
  /\ o.kind = "quiz" /\ o.pc = "done"
  /\ ops' = RemoveOp(o)
  /\ UNCHANGED <<now, storageVars, timerVars, pageVars, auxVars, nextIv, hist>>

\* quiz.conductQuiz(): no past problem, no quiz; else storage.saveQuizLog(quiz)
\* pushes { timestamp: now, quiz }
ConductQuizWith(questions) ==
  /\ Len(quizLogs) < QuizMaxLogs
  /\ IF Len(solutions) = 0
       THEN UNCHANGED quizLogs
       ELSE quizLogs' = Append(quizLogs,
                               [timestamp |-> wallClock,
                                quiz |-> [questions |-> questions,
                                          timestamp |-> Len(quizLogs) + 1]])
  /\ UNCHANGED <<now, storageVars, timerVars, ops, pageVars, nextIv, hist,
                 limits, problemsLength, gradeResponse, solutions, quizAlarm, notifications, report, wallClock>>

\* the AI response has no 'Question n:' section
ConductQuiz == ConductQuizWith(<<>>)

\* ------------------------------------------------- background: GRADE_QUIZ
\* answers['q' + index] of a question without a checked option
Undefined == "undefined"

\* option.charAt(0) of the options the quiz page renders
Letters == {"A", "B"}

\* parseQuiz: correctAnswer is '' or the letter after 'Correct answer:'
CorrectAnswers == {""} \cup Letters

RECURSIVE SeqsUpTo(_, _)
SeqsUpTo(S, n) ==
  IF n = 0 THEN {<<>>}
  ELSE LET shorter == SeqsUpTo(S, n - 1) IN
       shorter \cup {Append(q, x) : q \in {t \in shorter : Len(t) = n - 1}, x \in S}

\* the quizzes parseQuiz returns, by their questions' correctAnswer
QuestionInputs ==
  SeqsUpTo({[correctAnswer |-> c] : c \in CorrectAnswers}, GradeMaxQuestions)

\* the answers object of GRADE_QUIZ, by 0-based question index
AnswerInputs == [0..(GradeMaxQuestions - 1) -> Letters \cup {Undefined}]

isCorrect_unansweredMatchesEmpty(userAnswer, correctAnswer) ==
  userAnswer = correctAnswer \/ (userAnswer = Undefined /\ correctAnswer = "")

\* const isCorrect = userAnswer === question.correctAnswer
isCorrect(userAnswer, correctAnswer) == userAnswer = correctAnswer

\* quiz.questions.forEach((question, index) => ...) from 0-based index on,
\* with the score and the results so far
RECURSIVE gradeFrom(_, _, _, _, _)
gradeFrom(questions, answers, index, score, results) ==
  IF index >= Len(questions)
    THEN [score |-> score, results |-> results]
    ELSE LET question == questions[index + 1]
             userAnswer == answers[index]
             correct == isCorrect(userAnswer, question.correctAnswer)
         IN  gradeFrom(questions, answers, index + 1,
                       IF correct THEN score + 1 ELSE score,
                       Append(results,
                              [questionIndex |-> index,
                               userAnswer |-> userAnswer,
                               correctAnswer |-> question.correctAnswer,
                               isCorrect |-> correct]))

\* gradeQuiz(quiz, answers); percentage is (score / total) * 100, kept as the
\* fraction score * 100 / total (NaN for a quiz without questions)
gradeQuiz(quiz, answers) ==
  LET g == gradeFrom(quiz.questions, answers, 0, 0, <<>>) IN
    [score |-> g.score,
     total |-> Len(quiz.questions),
     percentage |-> [num |-> g.score * 100, den |-> Len(quiz.questions)],
     results |-> g.results]

\* saveQuizResults: quizLogs.find(log => log.quiz.timestamp === quiz.timestamp)
\* gets the results
RECURSIVE findQuizLog(_, _, _)
findQuizLog(qlogs, timestamp, k) ==
  IF k > Len(qlogs) THEN 0
  ELSE IF qlogs[k].quiz.timestamp = timestamp THEN k
  ELSE findQuizLog(qlogs, timestamp, k + 1)

saveQuizResults(qlogs, quiz, results) ==
  LET k == findQuizLog(qlogs, quiz.timestamp, 1) IN
    IF k = 0 THEN qlogs
    ELSE [qlogs EXCEPT ![k] = [timestamp |-> qlogs[k].timestamp,
                               quiz |-> qlogs[k].quiz,
                               results |-> results]]

\* handleGradeQuiz(answers): the quiz of the last quiz log is graded, the
\* results are saved with its log and returned; 'No active quiz found'
\* without a log
GradeQuiz(answers) ==
  /\ IF Len(quizLogs) = 0
       THEN /\ gradeResponse' = [error |-> "No active quiz found"]
            /\ UNCHANGED quizLogs
       ELSE LET currentQuiz == quizLogs[Len(quizLogs)].quiz
                results == gradeQuiz(currentQuiz, answers)
            IN  /\ quizLogs' = saveQuizResults(quizLogs, currentQuiz, results)
                /\ gradeResponse' = results
  /\ UNCHANGED <<now, storageVars, timerVars, ops, pageVars, nextIv, hist,
                 limits, problemsLength, solutions, quizAlarm, notifications,
                 report, wallClock>>

\* -------------------------------------------------------------- logger.js
\* problemMap[log.problemUrl]: the group a log record falls into
sameProblem_any(log, url) == TRUE

sameProblem(log, url) == log.problemUrl = url

\* problemMap[url].phases[phase]: the records pushed for one problem and phase,
\* in log order
phaseLogs(lgs, url, phase) ==
  SelectSeq(lgs, LAMBDA log : sameProblem(log, url) /\ log.phase = phase)

\* the callback of logs.reduce((sum, log) => sum + log.duration, 0)
addToTotal_overwrites(sum, log) == log.duration

addToTotal(sum, log) == sum + log.duration

RECURSIVE reduce(_, _)
reduce(seq, sum) ==
  IF seq = <<>> THEN sum ELSE reduce(Tail(seq), addToTotal(sum, Head(seq)))

\* below a minute toFixed(0) seconds; below an hour (seconds / 60).toFixed(1)
\* minutes, else (seconds / 3600).toFixed(1) hours; value holds the digits
\* printed, in tenths for minutes and hours
formatDuration(seconds) ==
  IF seconds < 60
    THEN [value |-> seconds, unit |-> "seconds"]
    ELSE IF seconds < 3600
      THEN [value |-> (seconds + 3) \div 6, unit |-> "minutes"]
      ELSE [value |-> (seconds + 180) \div 360, unit |-> "hours"]

\* problemMap[solution.problemUrl].solution = solution: the last one stays
lastSolution(sols, url) ==
  LET S == {k \in 1..Len(sols) : sols[k].problemUrl = url} IN
  IF S = {} THEN 0 ELSE CHOOSE k \in S : \A j \in S : j <= k

\* generateWeeklyReport(): one section per problem URL that has a log record
\* or a solution; in it one line per phase that has a record, with the
\* formatted total, and the solution if there is one
generateWeeklyReport(lgs, sols) ==
  LET urls == {lgs[k].problemUrl : k \in 1..Len(lgs)}
                \cup {sols[k].problemUrl : k \in 1..Len(sols)}
  IN  [url \in urls |->
         [phases |->
            [phase \in {lgs[k].phase :
                          k \in {j \in 1..Len(lgs) : sameProblem(lgs[j], url)}} |->
               formatDuration(reduce(phaseLogs(lgs, url, phase), 0))],
          solution |-> lastSolution(sols, url)]]

\* the phases and end times (start time 0) the logger is called with
ReportPhases == {"understand", "pseudocode"}
ReportEnds == {1, 90, 3600}

Stored == Len(logs) + Len(solutions)

\* logger.logPhaseTiming(problemUrl, phaseName, start, end)
LogPhaseTiming(problemUrl, phaseName, end) ==
  /\ Stored < ReportMaxLogs
  /\ LET e == logEntry(problemUrl, phaseName, 0, end, now, 0, "none") IN
       /\ logs' = logPhase(logs, e)
       /\ written' = Append(written, e)
  /\ UNCHANGED <<now, config, currentIndex, timerVars, ops, pageVars, nextIv,
                 hist, limits, problemsLength, gradeResponse, solutions, quizLogs, quizAlarm, notifications,
                 report, wallClock>>

\* storage.logSolution(problemUrl, ...)
LogSolution(problemUrl) ==
  /\ Stored < ReportMaxLogs
  /\ solutions' = logSolution(solutions, problemUrl, now)
  /\ UNCHANGED <<now, storageVars, timerVars, ops, pageVars, nextIv, hist,
                 limits, problemsLength, gradeResponse, quizLogs, quizAlarm, notifications, report, wallClock>>

\* logger.generateWeeklyReport()
GenerateWeeklyReport ==
  /\ report' = generateWeeklyReport(logs, solutions)
  /\ UNCHANGED <<now, storageVars, timerVars, ops, pageVars, nextIv, hist,
                 limits, problemsLength, gradeResponse, solutions, quizLogs, quizAlarm, notifications,
                 wallClock>>

\* ------------------------------------------------------- specifications
Next ==
  \/ Initialize
  \/ CompletePhase
  \/ SkipProblem
  \/ Tick
  \/ \E name \in PhaseNames : AlarmFires(name)
  \/ \E e \in fired : handlePhaseTimeout(e)
  \/ \E o \in InFlight :
       \/ StartPhaseResume(o)
       \/ StartPhaseDone(o)
       \/ CompletePhaseResume(o)
       \/ CompletePhaseLog(o)
       \/ CompletePhaseDone(o)
       \/ SkipProblemResume(o)
       \/ SkipProblemDone(o)
       \/ handlePhaseTimeoutLog(o)
       \/ PhaseTimeoutMessage(o)

Spec == Init /\ [][Next]_vars

\* the same program with a chrome.storage.sync whose writes may be rejected
\* (quota exceeded, write rate exceeded)
NextStorageFails ==
  \/ Next
  \/ \E o \in InFlight :
       \/ CompletePhaseLogFails(o)
       \/ handlePhaseTimeoutLogFails(o)

SpecStorageFails == Init /\ [][NextStorageFails]_vars

\* the same program, a shorter clock and more START_PHASE requests
SpecSequence == InitSequence /\ [][Next]_vars

\* the page with its 'Mark Solved' button
NextSolved ==
  \/ Next
  \/ MarkSolved
  \/ \E o \in InFlight :
       \/ MarkSolvedLogged(o)
       \/ MarkSolvedResume(o)
       \/ MarkSolvedDone(o)

SpecSolved ==
  InitWith([time |-> SolvedMaxTime, ivs |-> SolvedMaxIntervals])
    /\ [][NextSolved]_vars

\* the page with its phase indicators
NextReview ==
  \/ Next
  \/ \E phase \in PhaseNames : PhaseClick(phase)

SpecReview == InitSequence /\ [][NextReview]_vars

SpecTimeUp ==
  InitWith([time |-> UpMaxTime, ivs |-> UpMaxIntervals, shown |-> MaxShown])
    /\ [][Next]_vars

NextEditor ==
  \/ NextSolved
  \/ \E phase \in PhaseNames : PhaseClick(phase)
  \/ TypeText

SpecEditor ==
  InitWith([time |-> EdMaxTime, ivs |-> EdMaxIntervals]) /\ [][NextEditor]_vars

\* the options page has saved a configuration before the new-tab page opens,
\* and START_PHASE may come from any extension context
InitMessages ==
  \E d \in DurationInputs :
    InitFrom([time |-> MsgMaxTime, ivs |-> MsgMaxIntervals],
             saveConfig([getDefaultConfig.phaseDurations EXCEPT !.understand = d],
                        "", <<>>))

NextMessages ==
  \/ Next
  \/ \E phase \in RequestPhases : StartPhaseRequest(phase)
  \/ \E o \in InFlight :
       \/ RequestDone(o)

SpecMessages == InitMessages /\ [][NextMessages]_vars

\* the same program with a chrome.storage.sync whose reads may be rejected
NextStartFails ==
  \/ Next
  \/ \E o \in InFlight : StartPhaseConfigFails(o)

SpecStartFails ==
  InitWith([time |-> MsgMaxTime, ivs |-> MsgMaxIntervals])
    /\ [][NextStartFails]_vars

\* the logger on its own: records are stored, the report is generated
NextReport ==
  \/ \E problemUrl \in DOMAIN problems :
       \E phaseName \in ReportPhases : \E end \in ReportEnds :
         LogPhaseTiming(problems[problemUrl].url, phaseName, end)
  \/ \E problemUrl \in DOMAIN problems : LogSolution(problems[problemUrl].url)
  \/ GenerateWeeklyReport

SpecReport == Init /\ [][NextReport]_vars


\* the options page saves configurations while the new-tab page is in use
NextConfig ==
  \/ Next
  \/ \E d \in NewDurationInputs : \E urlInput \in UrlInputs :
       ConfigUpdated(d, urlInput, <<>>)
  \/ \E o \in InFlight :
       \/ ConfigUpdateResume(o)
       \/ ConfigUpdateFetched(o)
       \/ ConfigUpdateSchedule(o)

SpecConfig ==
  InitWith([time |-> CfgMaxTime, ivs |-> CfgMaxIntervals])
    /\ [][NextConfig]_vars

\* the problem list URLs the user saves while requests are in flight
IndexUrlInputs == {"problems.json", "short.json"}

NextIndex ==
  \/ NextSolved
  \/ \E urlInput \in IndexUrlInputs :
       ConfigUpdated(getDefaultConfig.phaseDurations.understand, urlInput, <<>>)
  \/ \E o \in InFlight :
       \/ ConfigUpdateResume(o)
       \/ ConfigUpdateFetched(o)
       \/ ConfigUpdateSchedule(o)

SpecIndex ==
  InitWith([time |-> IdxMaxTime, ivs |-> IdxMaxIntervals]) /\ [][NextIndex]_vars

\* the background on its own over a day and more: the daily reminder check,
\* the options page saving a quiz schedule, a solved problem and a quiz taken
InitQuiz ==
  \E h \in QuizStartHours :
    InitAt([time |-> 0, ivs |-> 1, hours |-> h + QuizMaxHours],
           getDefaultConfig, h)

NextQuiz ==
  \/ HourPasses
  \/ BackgroundInitialize
  \/ QuizAlarmFires
  \/ ConductQuiz
  \/ Len(solutions) < QuizMaxLogs /\ LogSolution(problems[0].url)
  \/ \E cronInput \in CronInputs : ConfigUpdated(0, "", cronInput)
  \/ \E o \in InFlight :
       \/ InitializeResume(o)
       \/ ConfigUpdateResume(o)
       \/ QuizReminderCheck(o)
       \/ QuizReminderDone(o)

SpecQuiz == InitQuiz /\ [][NextQuiz]_vars

\* one quiz is conducted and graded, any number of times
NextGrade ==
  \/ Len(solutions) < QuizMaxLogs /\ LogSolution(problems[0].url)
  \/ Len(quizLogs) = 0 /\ \E questions \in QuestionInputs : ConductQuizWith(questions)
  \/ \E answers \in AnswerInputs : GradeQuiz(answers)

SpecGrade == InitQuiz /\ [][NextGrade]_vars

\* a second new-tab page is opened: its initialize() sends START_PHASE for
\* 'understand' to the same background
NextTabs ==
  \/ Next
  \/ StartPhaseRequest("understand")
  \/ \E o \in InFlight : RequestDone(o)

SpecTabs ==
  InitWith([time |-> TabMaxTime, ivs |-> TabMaxIntervals])
    /\ [][NextTabs]_vars

\* the same, with a clock that keeps running, an alarm service that
\* dispatches every alarm that is due, and handlers that run to their end;
\* the user and the options page are free to act or not
Fairness ==
  /\ WF_vars(Tick)
  /\ WF_vars(\E name \in PhaseNames : AlarmFires(name))
  /\ WF_vars(\E e \in fired : handlePhaseTimeout(e))
  /\ WF_vars(\E o \in InFlight : handlePhaseTimeoutLog(o))
  /\ WF_vars(\E o \in InFlight : PhaseTimeoutMessage(o))
  /\ WF_vars(\E o \in InFlight : StartPhaseResume(o))
  /\ WF_vars(\E o \in InFlight : StartPhaseDone(o))
  /\ WF_vars(\E o \in InFlight : CompletePhaseResume(o))
  /\ WF_vars(\E o \in InFlight : CompletePhaseLog(o))
  /\ WF_vars(\E o \in InFlight : CompletePhaseDone(o))
  /\ WF_vars(\E o \in InFlight : SkipProblemResume(o))
  /\ WF_vars(\E o \in InFlight : SkipProblemDone(o))
  /\ WF_vars(\E o \in InFlight : ConfigUpdateResume(o))
  /\ WF_vars(\E o \in InFlight : ConfigUpdateFetched(o))
  /\ WF_vars(\E o \in InFlight : ConfigUpdateSchedule(o))

SpecConfigLive == SpecConfig /\ Fairness

\* the program without configuration updates, under the same fairness
SpecLive ==
  InitWith([time |-> CfgMaxTime, ivs |-> CfgMaxIntervals])
    /\ [][Next]_vars /\ Fairness

\* ---------------------------------------------------------------- claims
CountFor(iv) == Cardinality({k \in 1..Len(written) : written[k].iv = iv})

\* the page's COMPLETE_PHASE request for interval iv has been answered
Answered(iv) ==
  \E o \in InFlight : o.kind = "complete" /\ o.pc = "resp" /\ o.iv = iv

\* a handler that took interval iv from the slot is still before its write
Logging(iv) == \E o \in InFlight : o.pc = "log" /\ o.rec.iv = iv

\* C1: whatever the interleaving of the COMPLETE_PHASE request for an
\* interval with the firing of that interval's alarm, at most one record is
\* ever appended for the interval, and once the request is answered and no
\* handler is still writing, exactly one has been appended.
C1_ExactlyOnce ==
  \A iv \in Intervals :
    /\ CountFor(iv) <= 1
    /\ (Answered(iv) /\ ~Logging(iv)) => CountFor(iv) = 1

\* the COMPLETE_PHASE was requested while the interval was active, the alarm
\* handler ran while handleCompletePhase was suspended at its await and took
\* the interval, and both handlers have finished
C1_Witness ==
  \E o \in InFlight :
    /\ o.kind = "complete" /\ o.pc = "resp" /\ o.resp = "NoActive"
    /\ ~o.late
    /\ o.iv \in Intervals
    /\ hist[o.iv].by = "timeout"
    /\ ~Logging(o.iv)
    /\ CountFor(o.iv) = 1

\* C2: a 'Next Phase' action made after the timeout of the current phase has
\* fired moves the sequence on: the phase it was in joins the completed set.
C2_AdvanceAfterTimeout ==
  [][\A o \in InFlight :
       (CompletePhaseDone(o) /\ o.late)
         => completedPhases' = Append(completedPhases, currentPhase)]_vars

\* C3: no record is ever appended for an interval that was still active when
\* the page skipped its problem.
C3_AbandonedUnlogged ==
  \A k \in 1..Len(written) : ~hist[written[k].iv].abandoned

\* C4: the completed phases are always the first phases of the catalog in
\* catalog order, the current phase is the one after them (the last one when
\* all are completed), every successful completion starts the timer of the
\* next phase, and the fourth one starts nothing.
C4_Prefix ==
  /\ Len(completedPhases) <= Len(phases)
  /\ \A i \in 1..Len(completedPhases) : completedPhases[i] = phases[i]
  /\ currentPhase =
       phases[IF Len(completedPhases) < Len(phases)
                THEN Len(completedPhases) + 1 ELSE Len(phases)]

C4_Step ==
  \A o \in InFlight :
    (CompletePhaseDone(o) /\ o.resp = "ok") =>
      /\ completedPhases' = Append(completedPhases, currentPhase)
      /\ IF Len(completedPhases') < Len(phases)
           THEN /\ currentPhase' = phases[Len(completedPhases') + 1]
                /\ \E n \in BagToSet(ops') :
                     n.kind = "start" /\ n.pc = "cfg" /\ n.phase = currentPhase'
           ELSE /\ currentPhase' = currentPhase
                /\ ops' = RemoveOp(o)

C4_SequenceProgression == []C4_Prefix /\ [][C4_Step]_vars

\* all four phases completed, nothing running and nothing in flight
C4_Witness ==
  /\ completedPhases = phases
  /\ ops = EmptyBag
  /\ slot = NoSlot
  /\ \A p \in PhaseNames : alarms[p] = NoAlarm

\* C5: a timeout appends the record of the interval it ends (its problem,
\* its phase, its start time) and exactly one, and no step of the timeout
\* (the background handler, its write, the PHASE_TIMEOUT message at the
\* page) changes the page's current phase or completed set.
C5_Once ==
  \A iv \in Intervals :
    (hist[iv].by = "timeout" /\ ~Logging(iv)) => CountFor(iv) = 1

C5_Step ==
  /\ \A e \in fired :
       handlePhaseTimeout(e) => UNCHANGED <<currentPhase, completedPhases, logs>>
  /\ \A o \in InFlight :
       handlePhaseTimeoutLog(o) =>
         /\ UNCHANGED <<currentPhase, completedPhases>>
         /\ Len(logs') = Len(o.snap) + 1
         /\ logs'[Len(logs')].problemUrl = o.rec.problemUrl
         /\ logs'[Len(logs')].phase = o.rec.phase
         /\ logs'[Len(logs')].start = o.rec.startTime
         /\ logs'[Len(logs')].iv = o.rec.iv
  /\ \A o \in InFlight :
       PhaseTimeoutMessage(o) => UNCHANGED <<currentPhase, completedPhases>>

C5_TimeoutLogsWithoutAdvance == []C5_Once /\ [][C5_Step]_vars

\* the interval of the page's current phase timed out, its record is stored
\* and the page has handled PHASE_TIMEOUT
C5_Witness ==
  /\ listeners
  /\ ops = EmptyBag
  /\ pageIv \in Intervals
  /\ hist[pageIv].by = "timeout"
  /\ hist[pageIv].notified
  /\ CountFor(pageIv) = 1

\* C6: every pending phase alarm is the alarm of the interval in the slot,
\* so at most one is pending.
C6_AlarmsOfActiveInterval ==
  /\ \A p \in PhaseNames :
       alarms[p] # NoAlarm => (slot # NoSlot /\ alarms[p].iv = slot.iv)
  /\ Cardinality({p \in PhaseNames : alarms[p] # NoAlarm}) <= 1

\* C7: the stored log is the sequence of all entries logPhase calls have
\* stored, in the order they stored them.
C7_AppendOnly == logs = written

\* C8: when the write of the record fails during COMPLETE_PHASE the page
\* still advances.
C8_AdvanceOnStorageFailure ==
  [][\A o \in InFlight :
       (CompletePhaseDone(o) /\ o.resp = "Storage")
         => completedPhases' = Append(completedPhases, currentPhase)]_vars

\* C9: a timed-out interval whose handler has ended either has its record
\* in the log or was signalled to the page.
C9_NoSilentDrop ==
  \A iv \in Intervals :
    (hist[iv].by = "timeout" /\ ~Logging(iv))
      => (CountFor(iv) = 1 \/ hist[iv].notified)

\* C10: a COMPLETE_PHASE that finds no active interval is answered with an
\* error and stores nothing, and neither the request nor its answer changes
\* the page's current phase or completed set.
C10_Step ==
  /\ CompletePhase => UNCHANGED <<currentPhase, completedPhases>>
  /\ \A o \in InFlight :
       (CompletePhaseResume(o) /\ slot = NoSlot) =>
         /\ ops' = ReplaceOp(o, [o EXCEPT !.pc = "resp", !.resp = "NoActive"])
         /\ UNCHANGED <<logs, written, slot, alarms, currentPhase, completedPhases>>
  /\ \A o \in InFlight :
       (CompletePhaseDone(o) /\ o.resp = "NoActive") =>
         /\ ops' = RemoveOp(o)
         /\ UNCHANGED <<currentPhase, completedPhases, logs, written, slot>>

C10_NoActivePhase == [][C10_Step]_vars

\* a COMPLETE_PHASE has been answered 'No active phase found'
C10_Witness ==
  \E o \in InFlight : o.kind = "complete" /\ o.pc = "resp" /\ o.resp = "NoActive"

\* the phases of the page's completed list
Completed == {completedPhases[i] : i \in 1..Len(completedPhases)}

\* C11: a START_PHASE for a catalog phase that lies ahead of the current
\* phase and is not completed is refused: handleStartPhase creates no alarm
\* and records no interval for it.
C11_AheadPhaseRefused ==
  [][\A o \in InFlight :
       (/\ StartPhaseResume(o)
        /\ indexOf(o.phase) > indexOf(currentPhase)
        /\ o.phase \notin Completed)
         => UNCHANGED <<slot, alarms>>]_vars

\* C12: a START_PHASE for a phase whose configured duration is not greater
\* than 0 is refused: handleStartPhase creates no alarm and records no
\* interval, so no interval with a non-positive duration exists.
C12_NonPositiveDurationRefused ==
  [][\A o \in InFlight :
       (/\ StartPhaseResume(o)
        /\ o.phase \in DOMAIN config.phaseDurations
        /\ durationOf(config, o.phase) <= 0)
         => UNCHANGED <<slot, alarms>>]_vars

\* C13: a START_PHASE for a phase name with no entry in the configured
\* durations is answered with an error, and handleStartPhase creates no
\* alarm and leaves the active interval as it is.
C13_UnknownPhaseRefused ==
  [][\A o \in InFlight :
       (StartPhaseResume(o) /\ o.phase \notin DOMAIN config.phaseDurations)
         => /\ ops' = ReplaceOp(o, [o EXCEPT !.pc = "resp", !.resp = "Invalid"])
            /\ UNCHANGED <<slot, alarms>>]_vars

\* a request for 'review' has been answered with an error while an interval
\* is active
C13_Witness ==
  /\ slot # NoSlot
  /\ \E o \in InFlight :
       /\ o.kind = "request" /\ o.pc = "resp" /\ o.resp = "Invalid"
       /\ o.phase \notin DOMAIN config.phaseDurations

\* C14: a START_PHASE that fails changes nothing: neither the step of
\* handleStartPhase that fails nor the page's handling of the error answer
\* changes the active interval, the alarms, the page's current phase, its
\* completed list or its countdown.
C14_Step ==
  /\ \A o \in InFlight :
       (StartPhaseConfigFails(o)
          \/ (StartPhaseResume(o) /\ ~validDuration(durationOf(config, o.phase))))
         => UNCHANGED <<slot, alarms, currentPhase, completedPhases,
                        timerInterval, remainingTime>>
  /\ \A o \in InFlight :
       (StartPhaseDone(o) /\ o.resp # "ok")
         => UNCHANGED <<slot, alarms, currentPhase, completedPhases,
                        timerInterval, remainingTime>>

C15_Step ==
  \A o \in InFlight :
    (StartPhaseDone(o) /\ listeners /\ o.phase = "understand") =>
      /\ currentPhase' = "understand"
      /\ completedPhases' = <<>>
      /\ currentProblem' = problems[currentIndex].url
      /\ slot' # NoSlot =>
           (slot'.phase = "understand" /\ slot'.problemUrl = currentProblem')

RECURSIVE nextIndexTimes(_, _, _)
nextIndexTimes(index, length, k) ==
  IF k = 0 THEN index ELSE nextIndexTimes(nextIndex(index, length), length, k - 1)

\* C16: every SKIP_PROBLEM and MARK_SOLVED stores (currentIndex + 1) mod n
\* and answers with the problem at that index, which the page makes its
\* current problem; n of them in a row lead back to the starting index.
C16_Agree ==
  /\ currentIndex \in 0..(NumProblems - 1)
  /\ nextIndexTimes(currentIndex, NumProblems, NumProblems) = currentIndex
  /\ (PageOps = {} /\ currentProblem # -1)
       => currentProblem = problems[currentIndex].url

C16_Step ==
  /\ \A o \in InFlight :
       (SkipProblemResume(o) \/ MarkSolvedResume(o)) =>
         /\ currentIndex' = (currentIndex + 1) % NumProblems
         /\ \E n \in BagToSet(ops') :
              n.kind = o.kind /\ n.pc = "resp" /\ n.idx = currentIndex'
  /\ \A o \in InFlight :
       (SkipProblemDone(o) \/ MarkSolvedDone(o)) =>
         currentProblem' = problems[currentIndex].url

C16_NextProblemRoundRobin == []C16_Agree /\ [][C16_Step]_vars

\* as many skips and mark-solveds as there are problems, each abandoning an
\* interval, and the page is back at the first problem
C16_Witness ==
  /\ ops = EmptyBag
  /\ Cardinality({iv \in Intervals : hist[iv].abandoned}) = NumProblems
  /\ Len(written) = 0
  /\ slot.iv = NumProblems + 1
  /\ currentIndex = 0
  /\ currentProblem = problems[0].url

\* C17: the completed list holds catalog phases only and never holds the
\* current phase.
C17_CurrentNotCompleted ==
  /\ Completed \subseteq PhaseNames
  /\ currentPhase \notin Completed

\* C18: a click on a phase indicator, whether on the current phase, on a
\* completed phase or on a phase not reached yet, changes neither the
\* current phase, the completed list, the countdown, the active interval,
\* the alarms nor the log, and sends no request.
C18_Step ==
  \A phase \in PhaseNames :
    PhaseClick(phase) =>
      UNCHANGED <<currentPhase, completedPhases, timerInterval, remainingTime,
                  slot, alarms, logs, written, ops>>

C18_PhaseClickKeepsSequence == [][C18_Step]_vars

\* a completed phase has been re-entered for review while a later phase is
\* running
C18_Witness ==
  /\ editorPhase \in Completed
  /\ editorPhase # currentPhase
  /\ timerInterval
  /\ slot.phase = currentPhase

\* C19: every log record written by a timeout ends exactly at its interval's
\* start time plus the configured duration of its phase, however late the
\* alarm handler ran.
C19_TimeoutRecordExact ==
  \A k \in 1..Len(written) :
    written[k].by = "timeout" =>
      written[k].end = written[k].start + durationOf(config, written[k].phase)

\* C20: getRemainingTime is the number of whole seconds from now to the
\* scheduled time of the phase's alarm, and 0 at or after that time or
\* without an alarm: it is never negative and, while the same alarm stays
\* pending, a later call never returns more than an earlier one. The
\* countdown of the page is never negative and each tick of a running
\* countdown takes exactly one from it.
C20_Value ==
  \A name \in PhaseNames : \A sub \in SubSecond :
    LET t == now * 1000 + sub
        r == getRemainingTime(alarms, name, t)
    IN  /\ r >= 0
        /\ alarms[name] = NoAlarm => r = 0
        /\ alarms[name] # NoAlarm =>
             LET due == alarms[name].scheduledTime * 1000 IN
             /\ due <= t => r = 0
             /\ due > t => r * 1000 <= due - t /\ due - t < (r + 1) * 1000

C20_Inv ==
  /\ C20_Value
  /\ remainingTime >= 0
  /\ \A name \in PhaseNames : \A s1, s2 \in SubSecond :
       s1 <= s2 =>
         getRemainingTime(alarms, name, now * 1000 + s2)
           <= getRemainingTime(alarms, name, now * 1000 + s1)

C20_Step ==
  /\ \A name \in PhaseNames : \A s1, s2 \in SubSecond :
       (alarms[name] # NoAlarm /\ alarms'[name] = alarms[name] /\ s1 <= s2) =>
         getRemainingTime(alarms', name, now' * 1000 + s2)
           <= getRemainingTime(alarms, name, now * 1000 + s1)
  /\ (Tick /\ timerInterval) => remainingTime' = remainingTime - 1

C20_RemainingTime == []C20_Inv /\ [][C20_Step]_vars

\* an alarm is overdue and still pending, and the countdown of the page has
\* run down to 0 and stopped
C20_Witness ==
  /\ \E name \in PhaseNames :
       /\ alarms[name] # NoAlarm
       /\ now > alarms[name].scheduledTime
       /\ slot.phase = name
  /\ pageIv > 0
  /\ remainingTime = 0
  /\ ~timerInterval

\* the durations of the records of one problem and phase, added up by index
RECURSIVE SumDurations(_, _)
SumDurations(lgs, S) ==
  IF S = {} THEN 0
  ELSE LET k == CHOOSE k \in S : TRUE IN
       lgs[k].duration + SumDurations(lgs, S \ {k})

Matching(lgs, url, phase) ==
  {k \in 1..Len(lgs) : lgs[k].problemUrl = url /\ lgs[k].phase = phase}

\* C21: in a generated report, every problem URL and phase with a log record
\* has a line, and the line shows the sum of the durations of all records
\* with that URL and phase; a phase without a record has no line.
C21_Step ==
  GenerateWeeklyReport =>
    \A i \in DOMAIN problems : \A phase \in PhaseNames :
      LET url == problems[i].url
          M == Matching(logs, url, phase)
      IN  IF M = {}
            THEN url \in DOMAIN report' => phase \notin DOMAIN report'[url].phases
            ELSE /\ url \in DOMAIN report'
                 /\ phase \in DOMAIN report'[url].phases
                 /\ report'[url].phases[phase]
                      = formatDuration(SumDurations(logs, M))

C21_TotalsAreSums == [][C21_Step]_vars

\* the report in hand shows a total made of two or more records
C21_Witness ==
  /\ report # NoReport
  /\ report = generateWeeklyReport(logs, solutions)
  /\ \E i \in DOMAIN problems : \E phase \in ReportPhases :
       /\ Cardinality(Matching(logs, problems[i].url, phase)) >= 2
       /\ report[problems[i].url].phases[phase].value > 1

\* the section of one problem in the report made from lgs and sols, if any
Aggregate(lgs, sols, url) ==
  LET r == generateWeeklyReport(lgs, sols) IN
  {r[u] : u \in DOMAIN r \cap {url}}

\* C22: generating the report writes nothing, and generating it again over
\* the same logs and solutions gives the same report; a phase record
\* stored for one problem changes the aggregate of no other problem.
C22_Step ==
  /\ GenerateWeeklyReport =>
       /\ UNCHANGED <<logs, solutions>>
       /\ report = generateWeeklyReport(logs, solutions) => report' = report
  /\ \A i \in DOMAIN problems : \A phase \in ReportPhases : \A end \in ReportEnds :
       LogPhaseTiming(problems[i].url, phase, end) =>
         \A j \in DOMAIN problems \ {i} :
           Aggregate(logs', solutions', problems[j].url)
             = Aggregate(logs, solutions, problems[j].url)

ConfigUpdateStep ==
  \/ \E d \in NewDurationInputs : \E urlInput \in UrlInputs :
       ConfigUpdated(d, urlInput, <<>>)
  \/ \E o \in InFlight :
       ConfigUpdateResume(o) \/ ConfigUpdateFetched(o) \/ ConfigUpdateSchedule(o)

\* C23: no step of a configuration update changes the phase log: the same
\* records, in the same order, with the same durations.
C23_Step == ConfigUpdateStep => logs' = logs

C23_ConfigUpdateKeepsLog == [][C23_Step]_vars

\* new durations have just been saved over a log of two records
C23_Witness ==
  /\ Len(logs) >= 2
  /\ config.phaseDurations.understand # getDefaultConfig.phaseDurations.understand
  /\ \E o \in InFlight : o.kind = "config" /\ o.pc = "saved"
  /\ \E k \in 1..Len(logs) :
       /\ logs[k].phase = "understand"
       /\ logs[k].duration # config.phaseDurations.understand

\* C24: MARK_SOLVED stores exactly one solution record, for the problem of
\* the request, and then moves to the next problem and answers with success,
\* whether the GitHub commit went through or not; no other step of the
\* program touches the stored solutions.
C24_Step ==
  /\ \A o \in InFlight :
       /\ MarkSolvedLogged(o) =>
            /\ Len(solutions') = Len(solutions) + 1
            /\ SubSeq(solutions', 1, Len(solutions)) = solutions
            /\ solutions'[Len(solutions')].problemUrl = o.url
       /\ MarkSolvedResume(o) =>
            /\ currentIndex' = (o.idx + 1) % NumProblems
            /\ \E n \in BagToSet(ops') :
                 /\ n.kind = "solved" /\ n.pc = "resp" /\ n.resp = "ok"
                 /\ n.committed = o.committed
                 /\ n.idx = currentIndex'
  /\ solutions' # solutions => \E o \in InFlight : MarkSolvedLogged(o)

C24_Inv ==
  \A o \in InFlight : (o.kind = "solved" /\ o.pc = "resp") => o.resp = "ok"

C24_SolvedDespiteCommitFailure == []C24_Inv /\ [][C24_Step]_vars

\* a MARK_SOLVED whose commit failed has been answered with success after
\* the index moved on
C24_Witness ==
  \E o \in InFlight :
    /\ o.kind = "solved" /\ o.pc = "resp" /\ o.resp = "ok"
    /\ ~o.committed
    /\ currentIndex = o.idx
    /\ currentIndex # 0
    /\ Len(solutions) = 1

\* C25: what recordPhaseStart stores is what getCurrentPhase returns, with
\* the url and phase given; completeCurrentPhase returns that record with
\* the end time and the duration and empties the slot, after which
\* getCurrentPhase returns null and completeCurrentPhase returns null and
\* leaves the slot as it is.
C25_RoundTrip(s, url, phase, start, end) ==
  LET c == completeCurrentPhase(s, end)
      again == completeCurrentPhase(c.slot, end)
  IN  /\ getCurrentPhase(s).problemUrl = url
      /\ getCurrentPhase(s).phase = phase
      /\ c.record.problemUrl = url
      /\ c.record.phase = phase
      /\ c.record.startTime = start
      /\ c.record.endTime = end
      /\ c.record.duration = end - start
      /\ getCurrentPhase(c.slot) = NoSlot
      /\ again.record = NullRecord
      /\ again.slot = c.slot

C25_Inv ==
  /\ slot # NoSlot =>
       C25_RoundTrip(slot, slot.problemUrl, slot.phase, slot.startTime, now)
  /\ slot = NoSlot =>
       /\ completeCurrentPhase(slot, now).record = NullRecord
       /\ completeCurrentPhase(slot, now).slot = slot

C25_Step ==
  \A o \in InFlight :
    /\ (StartPhaseResume(o) /\ slot' # slot) =>
         C25_RoundTrip(slot', o.url, o.phase, now, now')
    /\ CompletePhaseResume(o) =>
         IF slot = NoSlot
           THEN /\ slot' = NoSlot
                /\ \E n \in BagToSet(ops') : n.pc = "resp" /\ n.resp = "NoActive"
           ELSE /\ slot' = NoSlot
                /\ \E n \in BagToSet(ops') :
                     /\ n.pc = "log"
                     /\ n.rec.problemUrl = slot.problemUrl
                     /\ n.rec.phase = slot.phase
                     /\ n.rec.startTime = slot.startTime
                     /\ n.rec.endTime = now
                     /\ n.rec.duration = now - slot.startTime

clock_day(clock) == (clock \div 24) % 7

LoggedToday(clock, qlogs) ==
  \E k \in 1..Len(qlogs) : qlogs[k].timestamp \div 24 = clock \div 24

\* C26: shouldConductQuiz is false on every weekday and on a weekend day that
\* has a quiz log entry of that day, and a reminder is raised only by the
\* reminder check, only on a Saturday or Sunday and only when no quiz has
\* been logged that day.
C26_Inv ==
  /\ (clock_day(wallClock) \in 1..5) => ~shouldConductQuiz(wallClock, quizLogs)
  /\ LoggedToday(wallClock, quizLogs) => ~shouldConductQuiz(wallClock, quizLogs)
  /\ \A k \in 1..Len(notifications) : clock_day(notifications[k]) \in {0, 6}

C26_Step ==
  notifications' # notifications =>
    /\ \E o \in InFlight : QuizReminderCheck(o)
    /\ clock_day(wallClock) \in {0, 6}
    /\ ~LoggedToday(wallClock, quizLogs)
    /\ notifications' = Append(notifications, wallClock)

C26_QuizReminderOnFreeWeekendDay == []C26_Inv /\ [][C26_Step]_vars

\* the reminder check has run on a weekend day that already has a quiz, and
\* raised nothing
C26_Witness ==
  /\ clock_day(wallClock) \in {0, 6}
  /\ LoggedToday(wallClock, quizLogs)
  /\ notifications = <<>>
  /\ \E o \in InFlight : o.kind = "quiz" /\ o.pc = "done" /\ o.resp = "quiet"

\* C27: the quiz reminder follows the configured schedule: a reminder is
\* raised at a time that matches the quizCron expression of the
\* configuration in force.
C27_Step ==
  \A o \in InFlight :
    (QuizReminderCheck(o) /\ notifications' # notifications) =>
      matchesCron(wallClock, config.quizCron)

C27_ReminderFollowsQuizCron == [][C27_Step]_vars

\* C28: the record that COMPLETE_PHASE appends carries the phase name and the
\* problem URL of the interval it took from the slot, the one whose start
\* time it uses.
C28_Step ==
  \A o \in InFlight :
    CompletePhaseLog(o) =>
      LET e == written'[Len(written')] IN
      /\ e.start = o.rec.startTime
      /\ e.phase = o.rec.phase
      /\ e.problemUrl = o.rec.problemUrl

C28_RecordNamesItsInterval == [][C28_Step]_vars

\* interval iv is running and its alarm is due within the time the clock runs
Running(iv) ==
  /\ slot.iv = iv
  /\ alarms[slot.phase].iv = iv
  /\ alarms[slot.phase].scheduledTime <= limits.time

\* interval iv was completed by hand, or given up: the problem was skipped
\* or a later START_PHASE took the slot
Released(iv) ==
  \/ hist[iv].by = "complete"
  \/ hist[iv].abandoned
  \/ (slot.iv # iv /\ hist[iv].by = "none")

TimedOut(iv) == hist[iv].by = "timeout" /\ CountFor(iv) > 0

\* C29: an interval that has been started and is neither completed by hand
\* nor given up is eventually ended by its timeout, and the record is logged.
C29_TimeoutEventuallyLogged ==
  \A iv \in 1..CfgMaxIntervals :
    Running(iv) ~> (TimedOut(iv) \/ Released(iv))


\* C30: a timeout never ends an interval early: every log record written by
\* handlePhaseTimeout covers at least the configured duration its interval
\* was started with, whatever starts, restarts of the same phase, skips and
\* completions came before.
C30_TimeoutNeverEarly ==
  \A k \in 1..Len(written) :
    written[k].by = "timeout" =>
      written[k].end - written[k].start >= durationOf(config, written[k].phase)


\* C31: a phase alarm handled while no interval is active, or while the
\* active interval is in another phase, has no effect: nothing is appended
\* to the log, the slot keeps its interval, no handler continuation is left
\* to send PHASE_TIMEOUT, and neither the page nor the notifications change.
C31_Step ==
  \A e \in fired :
    (handlePhaseTimeout(e) /\ (slot = NoSlot \/ slot.phase # e.name)) =>
      UNCHANGED <<slot, logs, written, ops, hist, notifications, pageVars>>

C32_IndexInRange ==
  problemsLength > 0 => (0 <= currentIndex /\ currentIndex < problemsLength)


\* C33: after any sequence of typing, phase-indicator clicks, 'Next Phase'
\* and 'Mark Solved', the text stored in each phase's solution slot is empty
\* or was typed while the editor showed that same phase's notes, never the
\* text of another phase.
C33_SlotsKeepOwnText ==
  \A p \in PhaseNames : userSolutions[p] \in {NoText, p}


\* C34: for each interval that runs out, the page shows the "Time's up"
\* message at most once, although both the page's countdown and the
\* background's PHASE_TIMEOUT message report the expiry.
C34_TimeUpShownOnce ==
  \A iv \in Intervals : hist[iv].shown <= 1


\* the graded questions of a quiz, counted apart from gradeQuiz's loop
CorrectlyAnswered(questions, answers) ==
  {i \in 1..Len(questions) :
     answers[i - 1] # Undefined /\ answers[i - 1] = questions[i].correctAnswer}

C35_Graded(questions, answers, r) ==
  /\ r.score = Cardinality(CorrectlyAnswered(questions, answers))
  /\ 0 <= r.score /\ r.score <= r.total
  /\ r.total = Len(questions)
  /\ Len(r.results) = Len(questions)
  /\ \A i \in 1..Len(questions) :
       /\ r.results[i].questionIndex = i - 1
       /\ r.results[i].userAnswer = answers[i - 1]
       /\ r.results[i].correctAnswer = questions[i].correctAnswer
       /\ r.results[i].isCorrect = (i \in CorrectlyAnswered(questions, answers))

C35_Step ==
  \A answers \in AnswerInputs :
    (GradeQuiz(answers) /\ Len(quizLogs) > 0) =>
      /\ C35_Graded(quizLogs[Len(quizLogs)].quiz.questions, answers, gradeResponse')
      /\ gradeResponse' = gradeQuiz(quizLogs[Len(quizLogs)].quiz, answers)

\* C35: gradeQuiz returns as score the number of questions whose submitted
\* answer equals the question's correct answer (an unanswered question is
\* wrong), with 0 <= score <= total, total the number of questions, and one
\* result entry per question in question order; handleGradeQuiz answers
\* with that result for the last quiz.
C35_GradeQuizCounts == [][C35_Step]_vars

C35_Witness ==
  /\ "score" \in DOMAIN gradeResponse
  /\ gradeResponse.total = GradeMaxQuestions
  /\ gradeResponse.score = 1
  /\ \E i \in 1..Len(gradeResponse.results) :
       /\ gradeResponse.results[i].userAnswer = Undefined
       /\ gradeResponse.results[i].correctAnswer = ""
  /\ \E i \in 1..Len(gradeResponse.results) : gradeResponse.results[i].isCorrect

====
